---- MODULE Spec2Model ----
(***************************************************************************)
(* A model of the MusicLinker cog (src/musiclinker.py): the per-guild      *)
(* settings and the commands that write them, the lazily created aiohttp   *)
(* session and cog_unload, the on_message listener with its awaits as      *)
(* separate steps, and the pure title cleaner _clean_yt_title.             *)
(***************************************************************************)
EXTENDS Integers, Sequences, FiniteSets, TLC

\* ---------------------------------------------------------------- bounds
MaxMatches == 2     \* link matches (Spotify plus YouTube) in one message, Spec
SessionMatches == 1 \* the same under SessionSpec
MaxUnloads == 2     \* times the host calls cog_unload
MaxPieces == 3      \* pieces a title is put together from

\* ------------------------------------------------------- program constants
DefaultMaxLinks == 3
MinLinks == 1
MaxLinks == 10

Guilds == {"g1"}
NoGuild == "dm"
\* the settings command invocations and the on_message passes the host runs:
\* Spec runs one pass against two commands, SessionSpec two passes and no command
SpecCmds == {1, 2}
SpecPasses == {1}
SessionPasses == {1, 2}
\* arguments the maxlinks command is called with
LimitArgs == {0, 2, 15}

Max2(a, b) == IF a >= b THEN a ELSE b
Min2(a, b) == IF a <= b THEN a ELSE b

VARIABLES
    conf,       \* guild -> settings record (redbot Config, guild scope)
    session,    \* self._session: 0 is None, else an index into sessions
    sessions,   \* every aiohttp.ClientSession created: closed flag, close() calls
    unloads,    \* completed cog_unload calls
    cmd,        \* command invocation -> its position and locals
    pass,       \* on_message pass -> its position and locals
    title,      \* input of _clean_yt_title
    cleaned,    \* its result
    cpc         \* "input" before the call of _clean_yt_title, "done" after, "off" when it is not run

vars == <<conf, session, sessions, unloads, cmd, pass, title, cleaned, cpc>>

Cmds == DOMAIN cmd
Passes == DOMAIN pass

\* ----------------------------------------------------------------- settings
default_guild ==
    [enabled |-> TRUE, show_thumbnail |-> TRUE,
     max_links_per_message |-> DefaultMaxLinks]

ClampNoUpper(limit) == Max2(MinLinks, limit)
\* limit = max(1, min(10, limit))
Clamp(limit) == Max2(MinLinks, Min2(MaxLinks, limit))

IdleCmd == [pc |-> "idle", kind |-> "none", guild |-> NoGuild, current |-> FALSE,
            arg |-> 0]

\* toggle: current = await ...enabled()
ml_toggle_read(c, g) ==
    /\ unloads = 0
    /\ cmd[c].pc = "idle"
    /\ \A d \in Cmds : d < c => cmd[d].pc # "idle"
    /\ cmd' = [cmd EXCEPT ![c] = [pc |-> "write", kind |-> "toggle", guild |-> g,
                                  current |-> conf[g].enabled, arg |-> 0]]
    /\ UNCHANGED <<conf, session, sessions, unloads, pass, title, cleaned, cpc>>

\* toggle: await ...enabled.set(not current)
ml_toggle_write(c) ==
    /\ cmd[c].pc = "write" /\ cmd[c].kind = "toggle"
    /\ conf' = [conf EXCEPT ![cmd[c].guild].enabled = ~cmd[c].current]
    /\ cmd' = [cmd EXCEPT ![c].pc = "done", ![c].current = FALSE]
    /\ UNCHANGED <<session, sessions, unloads, pass, title, cleaned, cpc>>

\* thumbnail: current = await ...show_thumbnail()
ml_thumbnail_read(c, g) ==
    /\ unloads = 0
    /\ cmd[c].pc = "idle"
    /\ \A d \in Cmds : d < c => cmd[d].pc # "idle"
    /\ cmd' = [cmd EXCEPT ![c] = [pc |-> "write", kind |-> "thumbnail", guild |-> g,
                                  current |-> conf[g].show_thumbnail, arg |-> 0]]
    /\ UNCHANGED <<conf, session, sessions, unloads, pass, title, cleaned, cpc>>

\* thumbnail: await ...show_thumbnail.set(not current)
ml_thumbnail_write(c) ==
    /\ cmd[c].pc = "write" /\ cmd[c].kind = "thumbnail"
    /\ conf' = [conf EXCEPT ![cmd[c].guild].show_thumbnail = ~cmd[c].current]
    /\ cmd' = [cmd EXCEPT ![c].pc = "done", ![c].current = FALSE]
    /\ UNCHANGED <<session, sessions, unloads, pass, title, cleaned, cpc>>

\* maxlinks: clamp, then one set
ml_maxlinks(c, g, limit) ==
    /\ unloads = 0
    /\ cmd[c].pc = "idle"
    /\ \A d \in Cmds : d < c => cmd[d].pc # "idle"
    /\ conf' = [conf EXCEPT ![g].max_links_per_message = Clamp(limit)]
    /\ cmd' = [cmd EXCEPT ![c] = [pc |-> "done", kind |-> "maxlinks", guild |-> g,
                                  current |-> FALSE, arg |-> limit]]
    /\ UNCHANGED <<session, sessions, unloads, pass, title, cleaned, cpc>>

\* ------------------------------------------------------------------ session
NeedsNewSessionAlways(s, ss) == TRUE
\* self._session is None or self._session.closed
NeedsNewSession(s, ss) == s = 0 \/ ss[s].closed

\* the value _get_session returns, and the state it leaves
SessionAfterGet == IF NeedsNewSession(session, sessions) THEN Len(sessions) + 1 ELSE session
SessionsAfterGet ==
    IF NeedsNewSession(session, sessions)
    THEN Append(sessions, [closed |-> FALSE, closes |-> 0])
    ELSE sessions

\* self._session and not self._session.closed
ShouldClose(s, ss) == s # 0 /\ ~ss[s].closed

cog_unload ==
    /\ unloads < MaxUnloads
    /\ unloads' = unloads + 1
    /\ sessions' = IF ShouldClose(session, sessions)
                   THEN [sessions EXCEPT ![session] =
                            [closed |-> TRUE, closes |-> @.closes + 1]]
                   ELSE sessions
    /\ UNCHANGED <<conf, session, cmd, pass, title, cleaned, cpc>>

\* ------------------------------------------------------------------ listener
\* what one metadata request can end in
Outcomes ==
    {"transport_error", "timeout", "status_not_200", "body_unparsable",
     "body_null", "body_empty_object", "body_non_object", "body_title_null",
     "body_ok"}

\* _fetch_spotify_oembed / _fetch_youtube_oembed: the parsed body on status 200,
\* None on any exception or other status
FetchOembed(o) ==
    IF o \in {"transport_error", "timeout", "status_not_200", "body_unparsable"}
    THEN "None"
    ELSE o

\* `if data:` None, null, 0, "", [] and {} are falsy
Truthy(data) == data \notin {"None", "body_null", "body_empty_object"}

\* the exception data.get(...) or the embed builder raises on this body
BuildRaises(data) ==
    IF data = "body_non_object" THEN "AttributeError"
    ELSE IF data = "body_title_null" THEN "TypeError"
    ELSE "none"

\* the embed of match m; `if show_thumb and thumbnail:` (body_ok carries a
\* thumbnail_url)
BuildEmbed(m, data, show_thumb) ==
    [match |-> m, thumb |-> show_thumb /\ data = "body_ok"]

IgnoreMessageNoBotCheck(bot, guild) == guild = NoGuild
\* `if message.author.bot or not message.guild: return`
IgnoreMessage(bot, guild) == bot \/ guild = NoGuild

CapReachedOffByOne(embeds, max_links) == Len(embeds) > max_links
\* `if len(embeds) >= max_links: break`
CapReached(embeds, max_links) == Len(embeds) >= max_links

\* the pass's position after the loops looked at match i with the list embeds:
\* the Spotify loop over matches 1..nSp, then the YouTube loop over the rest,
\* then `if embeds:`
LoopPcNoYoutubeCap(embeds, i, nSp, nYt, max_links) ==
    LET j == IF i <= nSp /\ CapReached(embeds, max_links) THEN nSp + 1 ELSE i
    IN  IF j <= nSp THEN [pc |-> "sp_session", i |-> j]
        ELSE IF j <= nSp + nYt THEN [pc |-> "yt_session", i |-> j]
        ELSE [pc |-> IF embeds # <<>> THEN "reply" ELSE "done", i |-> j]

LoopPc(embeds, i, nSp, nYt, max_links) ==
    LET j == IF i <= nSp /\ CapReached(embeds, max_links) THEN nSp + 1 ELSE i
    IN  IF j <= nSp THEN [pc |-> "sp_session", i |-> j]
        ELSE IF j <= nSp + nYt /\ ~CapReached(embeds, max_links)
             THEN [pc |-> "yt_session", i |-> j]
        ELSE [pc |-> IF embeds # <<>> THEN "reply" ELSE "done", i |-> j]

SendNextStopOnReject(ok, j, n) == IF ok /\ j < n THEN "send" ELSE "done"
\* `for embed in embeds:` with the HTTPException of one send swallowed
SendNext(ok, j, n) == IF j < n THEN "send" ELSE "done"

IdlePass ==
    [pc |-> "idle", bot |-> FALSE, guild |-> NoGuild, valid |-> FALSE,
     nSp |-> 0, nYt |-> 0, enabled |-> FALSE, show_thumb |-> FALSE,
     max_links |-> 0, embeds |-> <<>>, i |-> 1, sess |-> 0, fetched |-> <<>>,
     bulk |-> "none", sends |-> <<>>, delivered |-> <<>>, error |-> "none"]

\* the host calls on_message: the bot / DM check
on_message(p, bot, g, nSp, nYt) ==
    /\ unloads = 0
    /\ pass[p].pc = "idle"
    /\ \A q \in Passes : q < p => pass[q].pc # "idle"
    /\ pass' = [pass EXCEPT ![p] =
                  [IdlePass EXCEPT !.bot = bot, !.guild = g, !.nSp = nSp, !.nYt = nYt,
                                   !.pc = IF IgnoreMessage(bot, g) THEN "done"
                                          ELSE "read_enabled"]]
    /\ UNCHANGED <<conf, session, sessions, unloads, cmd, title, cleaned, cpc>>

\* enabled = await ...enabled(); if not enabled: return
read_enabled(p) ==
    /\ pass[p].pc = "read_enabled"
    /\ LET en == conf[pass[p].guild].enabled
       IN  pass' = [pass EXCEPT ![p].enabled = en,
                                ![p].pc = IF en THEN "get_context" ELSE "done"]
    /\ UNCHANGED <<conf, session, sessions, unloads, cmd, title, cleaned, cpc>>

\* ctx = await self.bot.get_context(message); if ctx.valid: return
get_context(p, valid) ==
    /\ pass[p].pc = "get_context"
    /\ pass' = [pass EXCEPT ![p].valid = valid,
                            ![p].pc = IF valid THEN "done" ELSE "read_thumb"]
    /\ UNCHANGED <<conf, session, sessions, unloads, cmd, title, cleaned, cpc>>

\* show_thumb = await guild_conf.show_thumbnail()
read_show_thumb(p) ==
    /\ pass[p].pc = "read_thumb"
    /\ pass' = [pass EXCEPT ![p].show_thumb = conf[pass[p].guild].show_thumbnail,
                            ![p].pc = "read_max"]
    /\ UNCHANGED <<conf, session, sessions, unloads, cmd, title, cleaned, cpc>>

\* max_links = await guild_conf.max_links_per_message(); embeds = []; enter the loops
read_max_links(p) ==
    /\ pass[p].pc = "read_max"
    /\ LET ml == conf[pass[p].guild].max_links_per_message
           nx == LoopPc(<<>>, 1, pass[p].nSp, pass[p].nYt, ml)
       IN  pass' = [pass EXCEPT ![p].max_links = ml, ![p].pc = nx.pc, ![p].i = nx.i]
    /\ UNCHANGED <<conf, session, sessions, unloads, cmd, title, cleaned, cpc>>

\* session = await self._get_session(), inside either fetch helper
get_session(p) ==
    /\ pass[p].pc \in {"sp_session", "yt_session"}
    /\ session' = SessionAfterGet
    /\ sessions' = SessionsAfterGet
    /\ pass' = [pass EXCEPT ![p].sess = SessionAfterGet,
                            ![p].pc = IF pass[p].pc = "sp_session" THEN "sp_request"
                                      ELSE "yt_request"]
    /\ UNCHANGED <<conf, unloads, cmd, title, cleaned, cpc>>

\* the request on the session obtained, `if data:`, the embed built and appended,
\* and the loop's next test. A closed session raises at once (caught: None).
fetch_and_build(p, o) ==
    /\ pass[p].pc \in {"sp_request", "yt_request"}
    /\ sessions[pass[p].sess].closed => o = "transport_error"
    /\ LET r == pass[p]
           data == FetchOembed(o)
           err == IF Truthy(data) THEN BuildRaises(data) ELSE "none"
           es == IF Truthy(data) /\ err = "none"
                 THEN Append(r.embeds, BuildEmbed(r.i, data, r.show_thumb))
                 ELSE r.embeds
           nx == LoopPc(es, r.i + 1, r.nSp, r.nYt, r.max_links)
       IN  pass' = [pass EXCEPT ![p] =
                      IF err # "none"
                      THEN [r EXCEPT !.fetched = Append(@, r.i), !.error = err,
                                     !.sess = 0, !.pc = "crashed"]
                      ELSE [r EXCEPT !.fetched = Append(@, r.i), !.embeds = es,
                                     !.sess = 0, !.pc = nx.pc, !.i = nx.i]]
    /\ UNCHANGED <<conf, session, sessions, unloads, cmd, title, cleaned, cpc>>

\* await message.reply(embeds=embeds, ...); rejected: discord.HTTPException
reply(p, ok) ==
    /\ pass[p].pc = "reply"
    /\ pass' = [pass EXCEPT ![p] =
                  IF ok
                  THEN [@ EXCEPT !.bulk = "ok", !.delivered = pass[p].embeds,
                                 !.pc = "done"]
                  ELSE [@ EXCEPT !.bulk = "rejected", !.pc = "send"]]
    /\ UNCHANGED <<conf, session, sessions, unloads, cmd, title, cleaned, cpc>>

\* await message.channel.send(embed=embed), HTTPException passed over
send_one(p, ok) ==
    /\ pass[p].pc = "send"
    /\ LET r == pass[p]
           j == Len(r.sends) + 1
       IN  pass' = [pass EXCEPT ![p] =
                      [r EXCEPT !.sends = Append(@, [unit |-> r.embeds[j], ok |-> ok]),
                                !.delivered = IF ok THEN Append(@, r.embeds[j]) ELSE @,
                                !.pc = SendNext(ok, j, Len(r.embeds))]]
    /\ UNCHANGED <<conf, session, sessions, unloads, cmd, title, cleaned, cpc>>

\* ------------------------------------------------------------ title cleaning
\* A title is a sequence of one-character strings.
Whitespace == {" ", "\t", "\n", "\r", "\f"}
Openers == {"(", "[", "{"}
Closers == {")", "]", "}"}
\* the class [-|/\] with the en dash and the em dash, which stand here as the
\* tokens "EN_DASH" and "EM_DASH"
Separators == {"-", "EN_DASH", "EM_DASH", "|", "/", "\\"}

LowerOf ==
    [A |-> "a", B |-> "b", C |-> "c", D |-> "d", E |-> "e", F |-> "f", G |-> "g",
     H |-> "h", I |-> "i", J |-> "j", K |-> "k", L |-> "l", M |-> "m", N |-> "n",
     O |-> "o", P |-> "p", Q |-> "q", R |-> "r", S |-> "s", T |-> "t", U |-> "u",
     V |-> "v", W |-> "w", X |-> "x", Y |-> "y", Z |-> "z"]
UpperLetters == DOMAIN LowerOf
LowerLetters == {LowerOf[c] : c \in UpperLetters}
Digits == {"0", "1", "2", "3", "4", "5", "6", "7", "8", "9"}

\* (?i)
ToLower(c) == IF c \in UpperLetters THEN LowerOf[c] ELSE c
\* \w
IsWordChar(c) == c \in UpperLetters \cup LowerLetters \cup Digits \cup {"_"}

SetMin(S) == CHOOSE x \in S : \A y \in S : x <= y
SetMax(S) == CHOOSE x \in S : \A y \in S : x >= y

\* \b before position i (1..Len(s)+1)
WordBoundary(s, i) ==
    LET before == i > 1 /\ IsWordChar(s[i - 1])
        after == i <= Len(s) /\ IsWordChar(s[i])
    IN  before # after

\* the position after the greedy \s* that starts at i
SkipSpaces(s, i) ==
    LET stops == {j \in i..Len(s) : s[j] \notin Whitespace}
    IN  IF stops = {} THEN Len(s) + 1 ELSE SetMin(stops)

\* YT_TITLE_NOISE at i: an opener, .*? (no newline), the first closer after it;
\* the index of that closer, 0 when there is no match at i
NoiseEnd(s, i) ==
    LET ends == {j \in (i + 1)..Len(s) :
                    /\ s[j] \in Closers
                    /\ \A k \in (i + 1)..(j - 1) : s[k] # "\n"}
    IN  IF s[i] \in Openers /\ ends # {} THEN SetMin(ends) ELSE 0

RECURSIVE SubNoise(_, _)
\* YT_TITLE_NOISE.sub("", s), scanning from i
SubNoise(s, i) ==
    IF i > Len(s) THEN <<>>
    ELSE IF NoiseEnd(s, i) # 0 THEN SubNoise(s, NoiseEnd(s, i) + 1)
    ELSE <<s[i]>> \o SubNoise(s, i + 1)

\* The alternatives of YT_TITLE_KEYWORDS in the order the pattern tries them,
\* "S*" standing for \s*; an optional group is the alternative with it, then
\* the one without it.
KeywordPatterns ==
    << <<"o","f","f","i","c","i","a","l","S*","m","u","s","i","c","S*","v","i","d","e","o">>,
       <<"o","f","f","i","c","i","a","l","S*","v","i","d","e","o">>,
       <<"l","y","r","i","c","S*","v","i","d","e","o">>,
       <<"o","f","f","i","c","i","a","l","S*","a","u","d","i","o">>,
       <<"a","u","d","i","o">>,
       <<"v","i","s","u","a","l","i","z","e","r">>,
       <<"p","e","r","f","o","r","m","a","n","c","e","S*","v","i","d","e","o">>,
       <<"c","l","i","p","S*","o","f","f","i","c","i","e","l">>,
       <<"r","e","m","a","s","t","e","r","e","d">>,
       <<"r","e","m","a","s","t","e","r">>,
       <<"h","d">>, <<"h","q">>, <<"4","k">>, <<"m","v">> >>

RECURSIVE MatchPattern(_, _, _, _)
\* pat from its k-th token matched at position i of s: the position after the
\* match, 0 when it fails. \s* is always followed by a letter, so the greedy
\* choice is the only one that can succeed.
MatchPattern(s, i, pat, k) ==
    IF k > Len(pat) THEN i
    ELSE IF pat[k] = "S*" THEN MatchPattern(s, SkipSpaces(s, i), pat, k + 1)
    ELSE IF i <= Len(s) /\ ToLower(s[i]) = pat[k] THEN MatchPattern(s, i + 1, pat, k + 1)
    ELSE 0

\* YT_TITLE_KEYWORDS at i: \b, the first alternative that matches and is
\* followed by \b; the position after the match, 0 when there is none
KeywordEnd(s, i) ==
    LET hits == {a \in 1..Len(KeywordPatterns) :
                    LET e == MatchPattern(s, i, KeywordPatterns[a], 1)
                    IN  e # 0 /\ WordBoundary(s, e)}
    IN  IF WordBoundary(s, i) /\ hits # {}
        THEN MatchPattern(s, i, KeywordPatterns[SetMin(hits)], 1)
        ELSE 0

RECURSIVE SubKeywords(_, _)
\* YT_TITLE_KEYWORDS.sub("", s), scanning from i
SubKeywords(s, i) ==
    IF i > Len(s) THEN <<>>
    ELSE IF KeywordEnd(s, i) # 0 THEN SubKeywords(s, KeywordEnd(s, i))
    ELSE <<s[i]>> \o SubKeywords(s, i + 1)

\* s[p..] is \s*[separators]+\s*
IsSeparatorTail(s, p) ==
    \E a \in p..Len(s), b \in p..Len(s) :
        /\ a <= b
        /\ \A k \in p..(a - 1) : s[k] \in Whitespace
        /\ \A k \in a..b : s[k] \in Separators
        /\ \A k \in (b + 1)..Len(s) : s[k] \in Whitespace

\* re.sub(r"\s*[separators]+\s*$", "", s): the leftmost match runs to the end
SubTrailingSeparators(s) ==
    LET starts == {p \in 1..Len(s) : IsSeparatorTail(s, p)}
    IN  IF starts = {} THEN s ELSE SubSeq(s, 1, SetMin(starts) - 1)

\* re.sub(r"^\s*[separators]+\s*", "", s): greedy from the start of the string
SubLeadingSeparators(s) ==
    LET a == SkipSpaces(s, 1)
        nonsep == {j \in a..Len(s) : s[j] \notin Separators}
        b == IF nonsep = {} THEN Len(s) + 1 ELSE SetMin(nonsep)
    IN  IF b > a THEN SubSeq(s, SkipSpaces(s, b), Len(s)) ELSE s

RECURSIVE CollapseSpaces(_, _)
\* re.sub(r"\s{2,}", " ", s), scanning from i
CollapseSpaces(s, i) ==
    IF i > Len(s) THEN <<>>
    ELSE IF s[i] \in Whitespace /\ SkipSpaces(s, i) >= i + 2
         THEN <<" ">> \o CollapseSpaces(s, SkipSpaces(s, i))
    ELSE <<s[i]>> \o CollapseSpaces(s, i + 1)

\* str.strip()
Strip(s) ==
    LET keep == {j \in 1..Len(s) : s[j] \notin Whitespace}
    IN  IF keep = {} THEN <<>> ELSE SubSeq(s, SetMin(keep), SetMax(keep))

\* lines 93-98: the five substitutions and the strip
CleanSteps(t) ==
    Strip(CollapseSpaces(
        SubLeadingSeparators(SubTrailingSeparators(SubKeywords(SubNoise(t, 1), 1))), 1))

OrElseNothing(c, t) == c
\* `cleaned or title.strip()`
OrElse(c, t) == IF c # <<>> THEN c ELSE Strip(t)

clean_yt_title(t) == OrElse(CleanSteps(t), t)

\* the pieces the titles checked are put together from
Pieces ==
    << <<"R","E","M","A","S","T","E","R">>, <<"E","D">>, <<" ">>, <<"(">>, <<"]">>,
       <<"-">>, <<"a">>, <<"h","d">>, <<"\n">>,
       <<"O","f","f","i","c","i","a","l">>, <<"V","i","d","e","o">> >>

RECURSIVE Concat(_, _)
Concat(ps, k) == IF k > Len(ps) THEN <<>> ELSE Pieces[ps[k]] \o Concat(ps, k + 1)

Titles == {Concat(ps, 1) : ps \in UNION {[1..n -> 1..Len(Pieces)] : n \in 0..MaxPieces}}

\* the call _clean_yt_title(title)
clean_title ==
    /\ cpc = "input"
    /\ cleaned' = clean_yt_title(title)
    /\ cpc' = "done"
    /\ UNCHANGED <<conf, session, sessions, unloads, cmd, pass, title>>

\* -------------------------------------------------------------- specification
MatchCounts(n) == {nn \in (0..n) \X (0..n) : nn[1] + nn[2] <= n}

InitWith(cs, ps) ==
    /\ conf = [g \in Guilds |-> default_guild]
    /\ session = 0
    /\ sessions = <<>>
    /\ unloads = 0
    /\ cmd = [c \in cs |-> IdleCmd]
    /\ pass = [p \in ps |-> IdlePass]
    /\ title = <<>>
    /\ cleaned = <<>>
    /\ cpc = "off"

Init == InitWith(SpecCmds, SpecPasses)

InitSession == InitWith({}, SessionPasses)

CommandNext ==
    \/ \E c \in Cmds, g \in Guilds : ml_toggle_read(c, g)
    \/ \E c \in Cmds : ml_toggle_write(c)
    \/ \E c \in Cmds, g \in Guilds : ml_thumbnail_read(c, g)
    \/ \E c \in Cmds : ml_thumbnail_write(c)
    \/ \E c \in Cmds, g \in Guilds, limit \in LimitArgs : ml_maxlinks(c, g, limit)

PassNext(n) ==
    \/ \E p \in Passes, bot \in BOOLEAN, g \in Guilds \cup {NoGuild},
          nn \in MatchCounts(n) :
            on_message(p, bot, g, nn[1], nn[2])
    \/ \E p \in Passes : read_enabled(p)
    \/ \E p \in Passes, valid \in BOOLEAN : get_context(p, valid)
    \/ \E p \in Passes : read_show_thumb(p)
    \/ \E p \in Passes : read_max_links(p)
    \/ \E p \in Passes : get_session(p)
    \/ \E p \in Passes, o \in Outcomes : fetch_and_build(p, o)
    \/ \E p \in Passes, ok \in BOOLEAN : reply(p, ok)
    \/ \E p \in Passes, ok \in BOOLEAN : send_one(p, ok)

Next == CommandNext \/ cog_unload \/ PassNext(MaxMatches)

Spec == Init /\ [][Next]_vars

NextSession == cog_unload \/ PassNext(SessionMatches)

SessionSpec == InitSession /\ [][NextSession]_vars

InitClean ==
    /\ conf = [g \in Guilds |-> default_guild]
    /\ session = 0
    /\ sessions = <<>>
    /\ unloads = 0
    /\ cmd = <<>>
    /\ pass = <<>>
    /\ title \in Titles
    /\ cleaned = <<>>
    /\ cpc = "input"

CleanSpec == InitClean /\ [][clean_title]_vars

\* ------------------------------------------------------------------- claims
OpenSessions == {k \in 1..Len(sessions) : ~sessions[k].closed}
Fetching(r) == r.pc \in {"sp_session", "sp_request", "yt_session", "yt_request"}
TogglesDone(g) == {c \in Cmds : cmd[c].pc = "done" /\ cmd[c].kind = "toggle" /\ cmd[c].guild = g}
ThumbnailsDone(g) ==
    {c \in Cmds : cmd[c].pc = "done" /\ cmd[c].kind = "thumbnail" /\ cmd[c].guild = g}

\* C1: in every reachable state the stored max_links_per_message of every
\* guild lies in 1..10, and a maxlinks command called with n leaves
\* max(1, min(10, n)) stored: 15 is stored as 10 and 0 as 1.
C1_MaxLinksClamped ==
    /\ [](\A g \in Guilds : conf[g].max_links_per_message \in 1..10)
    /\ [][\A c \in Cmds :
            (cmd[c].pc = "idle" /\ cmd'[c].kind = "maxlinks") =>
                LET n == cmd'[c].arg
                IN  conf'[cmd'[c].guild].max_links_per_message =
                        IF n < 1 THEN 1 ELSE IF n > 10 THEN 10 ELSE n]_vars

\* a maxlinks 15 has stored 10 and a later maxlinks 0 has stored 1
C1_Witness ==
    /\ cmd[1].pc = "done" /\ cmd[1].kind = "maxlinks" /\ cmd[1].arg = 15
    /\ cmd[2].pc = "done" /\ cmd[2].kind = "maxlinks" /\ cmd[2].arg = 0
    /\ conf["g1"].max_links_per_message = 1

\* C2: a pass fetches or delivers only for a message whose author is no bot,
\* that is in a guild, with the enabled flag it read true and ctx.valid false;
\* a pass that ended on one of these gates made no fetch and delivered nothing.
C2_GatesBeforeFetch ==
    \A p \in Passes :
        LET r == pass[p]
            acted == \/ Fetching(r) \/ r.fetched # <<>> \/ r.embeds # <<>>
                     \/ r.bulk # "none" \/ r.sends # <<>> \/ r.delivered # <<>>
            gated == r.bot \/ r.guild = NoGuild \/ ~r.enabled \/ r.valid
        IN  /\ acted => ~gated
            /\ (r.pc = "done" /\ gated) => ~acted

\* a message with links in a guild whose enabled flag was read false: the pass
\* is over without a fetch
C2_Witness ==
    \E p \in Passes :
        /\ pass[p].pc = "done" /\ ~pass[p].bot /\ pass[p].guild \in Guilds
        /\ ~pass[p].enabled /\ pass[p].nSp + pass[p].nYt > 0
        /\ pass[p].fetched = <<>> /\ pass[p].delivered = <<>>

\* C3: the units a pass has built, and so the units it delivers, are never more
\* than the max_links value the pass read, Spotify and YouTube units together.
C3_UnitsWithinCap ==
    \A p \in Passes :
        /\ Len(pass[p].embeds) <= pass[p].max_links
        /\ Len(pass[p].delivered) <= pass[p].max_links
        /\ Len(pass[p].sends) <= pass[p].max_links

\* one Spotify and one YouTube match under a cap of 1: the Spotify unit is
\* delivered and the YouTube match is never fetched
C3_Witness ==
    \E p \in Passes :
        /\ pass[p].pc = "done" /\ pass[p].nSp = 1 /\ pass[p].nYt = 1
        /\ pass[p].max_links = 1 /\ Len(pass[p].delivered) = 1
        /\ pass[p].fetched = <<1>>

\* C4 as stated: a pass makes at most max_links fetches, and every delivered
\* unit is of one of the first max_links matches.
C4_FetchesWithinCap ==
    \A p \in Passes :
        /\ Len(pass[p].fetched) <= pass[p].max_links
        /\ \A k \in 1..Len(pass[p].delivered) :
              pass[p].delivered[k].match <= pass[p].max_links

\* C4 amended: matches are fetched in extraction order without skipping, each
\* fetch is made while fewer than max_links units are built (a fetch that gives
\* no unit does not count against the cap), and the units are of fetched
\* matches in that order, at most max_links of them.
C4_FetchWhileBelowCap ==
    \A p \in Passes :
        LET r == pass[p]
            built(m) == {k \in 1..Len(r.embeds) : r.embeds[k].match < m}
        IN  /\ r.fetched = [k \in 1..Len(r.fetched) |-> k]
            /\ Len(r.fetched) <= r.nSp + r.nYt
            /\ \A k \in 1..Len(r.fetched) : Cardinality(built(r.fetched[k])) < r.max_links
            /\ \A k \in 1..Len(r.embeds) :
                  /\ r.embeds[k].match \in 1..Len(r.fetched)
                  /\ k > 1 => r.embeds[k - 1].match < r.embeds[k].match
            /\ Len(r.embeds) <= r.max_links
            /\ \A k \in 1..Len(r.delivered) :
                  \E j \in 1..Len(r.embeds) : r.delivered[k] = r.embeds[j]

\* under a cap of 1 the first fetch gave nothing, the second match was fetched
\* too and its unit delivered
C4_Witness ==
    \E p \in Passes :
        /\ pass[p].pc = "done" /\ pass[p].max_links = 1
        /\ pass[p].fetched = <<1, 2>>
        /\ Len(pass[p].delivered) = 1 /\ pass[p].delivered[1].match = 2

\* C5: whatever a fetch ends in, no error escapes the pass: an unusable
\* outcome only drops its match.
C5_NoErrorEscapes ==
    \A p \in Passes : pass[p].pc # "crashed" /\ pass[p].error = "none"

C7_SessionLifecycle ==
    /\ [](/\ Cardinality(OpenSessions) <= 1
          /\ OpenSessions \subseteq {session}
          /\ \A k \in 1..Len(sessions) :
                /\ sessions[k].closes <= 1
                /\ sessions[k].closed <=> sessions[k].closes = 1)
    /\ [][/\ Len(sessions') > Len(sessions) =>
                OpenSessions = {} /\ Len(sessions') = Len(sessions) + 1
          /\ \A p \in Passes :
                (pass[p].pc \in {"sp_session", "yt_session"} /\ pass'[p].pc # pass[p].pc
                    /\ OpenSessions # {}) =>
                  /\ sessions' = sessions /\ session' = session
                  /\ pass'[p].sess = session
          /\ unloads' # unloads =>
                /\ session' = session
                /\ sessions' =
                      IF session # 0 /\ ~sessions[session].closed
                      THEN [sessions EXCEPT ![session] = [closed |-> TRUE, closes |-> 1]]
                      ELSE sessions]_vars

\* two passes hold the one session, which a first cog_unload closed and a
\* second left alone
C7_Witness ==
    /\ unloads = 2 /\ Len(sessions) = 1 /\ sessions[1].closes = 1
    /\ \A p \in Passes : pass[p].sess = 1

\* C9: once a cog_unload has completed no session is open.
C9_NoOpenAfterUnload == unloads > 0 => OpenSessions = {}

\* C10: after n completed toggle commands on a guild its enabled flag is the
\* initial value negated n times, and likewise show_thumbnail.
C10_ToggleFlips ==
    \A g \in Guilds :
        /\ conf[g].enabled = (Cardinality(TogglesDone(g)) % 2 = 0)
        /\ conf[g].show_thumbnail = (Cardinality(ThumbnailsDone(g)) % 2 = 0)

HasNonSpace(t) == \E k \in 1..Len(t) : t[k] \notin {" ", "\t", "\n", "\r", "\f"}

\* C8 as stated: the result is never empty, for every title.
C8_NeverEmpty == cpc = "done" => cleaned # <<>>

\* C8 amended: for every title with a character that is not whitespace the
\* result is not empty, and when the substitutions leave nothing it is the
\* title trimmed; a blank title gives the empty string.
C8_NonBlankNeverEmpty ==
    cpc = "done" =>
        /\ HasNonSpace(title) => cleaned # <<>>
        /\ ~HasNonSpace(title) => cleaned = <<>>
        /\ CleanSteps(title) = <<>> => cleaned = Strip(title)

\* "REMASTERED" is all noise and comes back as it was
C8_Witness ==
    /\ cpc = "done"
    /\ title = <<"R","E","M","A","S","T","E","R","E","D">>
    /\ CleanSteps(title) = <<>>
    /\ cleaned = title

====
